---- MODULE Spec2Model ----
(***************************************************************************)
(* PyScry: the import-resolution pipeline of src/src/pyscry/pyscry.py and  *)
(* its command-line entry src/src/pyscry/__main__.py.                      *)
(*                                                                         *)
(* Python str values are sequences of code points, so that sorted() is the *)
(* lexicographic order of the code and f-string concatenation is \o.       *)
(* An optional value is <<>> (None) or <<v>>.                              *)
(***************************************************************************)
EXTENDS Integers, Sequences, FiniteSets, TLC

VARIABLES
    entry,          \* "cli": main() of __main__.py; "api": process_files called directly
    jobs,           \* --jobs / the size of the pool handed to process_files
    paths,          \* the list of files handed to process_files (real_paths)
    host,           \* the host metadata: PKG_MAP, md.version, import specs, stdlib paths
    version_style,  \* process_files' version_style
    output_format,  \* process_files' output_format
    output,         \* the --output target of main(), "stream" for a direct call
    pc,             \* where the coordinator is
    running,        \* indices of the units of the current pool.map a worker is executing
    arrived,        \* results of the current pool.map, in the order they completed
    imports,        \* collect_imports' return value
    dist_map,       \* process_files' dist_map, once built
    written,        \* what has been written to the writer, chunk by chunk
    err,            \* the exception that ended the run, "" if none
    unitsRun,       \* how many units of work were handed to a pool worker
    tree,           \* the syntax tree given to find_imports (specification SpecScan)
    found           \* find_imports' return value, optional (specification SpecScan)

vars == <<entry, jobs, paths, host, version_style, output_format, output, pc,
          running, arrived, imports, dist_map, written, err, unitsRun, tree, found>>

----------------------------------------------------------------------------
(* Bounds of the model *)

MaxFiles == 2
MaxJobs == 2
MaxNodes == 4

----------------------------------------------------------------------------
(* Values *)

None == <<>>
Some(v) == <<v>>

Range(s) == {s[i] : i \in DOMAIN s}

(* "a", "ab", "b": top-level module names; "a.b", "ab.x", "b.a": dotted names *)
s_a == <<97>>
s_ab == <<97, 98>>
s_b == <<98>>
s_a_b == <<97, 46, 98>>
s_ab_x == <<97, 98, 46, 120>>
s_b_a == <<98, 46, 97>>
(* "p", "q": distribution names; "1.2": a version *)
s_p == <<112>>
s_q == <<113>>
s_1_2 == <<49, 46, 50>>

(* Python's str.__lt__: code point by code point, a proper prefix first *)
RECURSIVE StrLess(_, _)
StrLess(s, t) ==
    IF s = <<>> THEN t # <<>>
    ELSE IF t = <<>> THEN FALSE
    ELSE IF Head(s) # Head(t) THEN Head(s) < Head(t)
    ELSE StrLess(Tail(s), Tail(t))

(* s.split(".")[0] *)
RECURSIVE split_dot_0(_)
split_dot_0(s) ==
    IF s = <<>> \/ Head(s) = 46 THEN <<>>
    ELSE <<Head(s)>> \o split_dot_0(Tail(s))

(* sorted(list): insertion of each element after those not greater than it *)
RECURSIVE InsertSorted(_, _)
InsertSorted(x, s) ==
    IF s = <<>> THEN <<x>>
    ELSE IF StrLess(x, Head(s)) THEN <<x>> \o s
    ELSE <<Head(s)>> \o InsertSorted(x, Tail(s))

RECURSIVE sorted(_)
sorted(s) ==
    IF s = <<>> THEN <<>>
    ELSE InsertSorted(s[Len(s)], sorted(SubSeq(s, 1, Len(s) - 1)))

(* Iterating a Python set: the order is arbitrary. The model iterates from *)
(* the greatest element down, an order no sort produces.                   *)
RECURSIVE IterSet(_)
IterSet(S) ==
    IF S = {} THEN <<>>
    ELSE LET x == CHOOSE x \in S : \A y \in S : ~StrLess(x, y)
         IN  <<x>> \o IterSet(S \ {x})

----------------------------------------------------------------------------
(* Distribution *)

Distribution(name, version) == [name |-> name, version |-> version]

to_specifier_exact_as_minimum(self, style) ==
    IF self.version = None \/ style = "none" THEN self.name
    ELSE LET op == IF style = "compatible" THEN <<126, 61>> ELSE <<62, 61>>
         IN  self.name \o op \o self.version[1]

to_specifier(self, style) ==
    IF self.version = None \/ style = "none" THEN self.name
    ELSE LET op == IF style = "compatible" THEN <<126, 61>>
                   ELSE IF style = "exact" THEN <<61, 61>>
                   ELSE <<62, 61>>
         IN  self.name \o op \o self.version[1]

----------------------------------------------------------------------------
(* Syntax trees: tree[1] is the ast.Module, every other node names its     *)
(* parent, an earlier Module or FunctionDef; a node's children are the     *)
(* nodes naming it, in source order.                                       *)

ModuleNode == [type |-> "Module", parent |-> 0, names |-> <<>>, level |-> 0, module |-> None]
FunctionDef(p) == [type |-> "FunctionDef", parent |-> p, names |-> <<>>, level |-> 0, module |-> None]
Expr(p) == [type |-> "Expr", parent |-> p, names |-> <<>>, level |-> 0, module |-> None]
Import(p, names) == [type |-> "Import", parent |-> p, names |-> names, level |-> 0, module |-> None]
ImportFrom(p, level, module) ==
    [type |-> "ImportFrom", parent |-> p, names |-> <<>>, level |-> level, module |-> module]

iter_child_nodes(t, n) == SelectSeq([i \in 1..Len(t) |-> i], LAMBDA i : t[i].parent = n)

(* ast.walk: breadth first from the root *)
RECURSIVE WalkFrom(_, _, _)
WalkFrom(t, todo, seen) ==
    IF todo = <<>> THEN seen
    ELSE WalkFrom(t, Tail(todo) \o iter_child_nodes(t, Head(todo)), Append(seen, Head(todo)))

ast_walk(t) == WalkFrom(t, <<1>>, <<>>)

(* One iteration of find_imports' loop *)
VisitNodeKeepRelative(node, modules) ==
    IF node.type = "Import"
    THEN modules \cup {split_dot_0(node.names[k]) : k \in DOMAIN node.names}
    ELSE IF node.type = "ImportFrom"
    THEN IF node.module # None /\ node.module[1] # <<>>
         THEN modules \cup {split_dot_0(node.module[1])}
         ELSE modules
    ELSE modules

VisitNode(node, modules) ==
    IF node.type = "Import"
    THEN modules \cup {split_dot_0(node.names[k]) : k \in DOMAIN node.names}
    ELSE IF node.type = "ImportFrom"
    THEN IF node.level > 0 THEN modules
         ELSE IF node.module # None /\ node.module[1] # <<>>
         THEN modules \cup {split_dot_0(node.module[1])}
         ELSE modules
    ELSE modules

RECURSIVE FindLoop(_, _, _)
FindLoop(t, nodes, modules) ==
    IF nodes = <<>> THEN modules
    ELSE FindLoop(t, Tail(nodes), VisitNode(t[Head(nodes)], modules))

find_imports(t) == FindLoop(t, ast_walk(t), {})

----------------------------------------------------------------------------
(* Host metadata. A filesystem path is the sequence of its components, so   *)
(* that Path.relative_to(root) succeeds exactly when root is a prefix.      *)

IsRelativeTo(p, root) == Len(root) <= Len(p) /\ SubSeq(p, 1, Len(root)) = root

StdlibDir == <<"usr", "lib", "python3">>
PlatStdlibDir == <<"usr", "lib64", "python3">>
SiteDir == <<"venv", "site-packages">>

(* An importlib ModuleSpec: origin and submodule_search_locations, each optional *)
ModuleSpec(origin, locations) == [origin |-> origin, locations |-> locations]

(* a, ab installed packages of the environment, b a standard-library module; *)
(* the version of q cannot be found                                          *)
HostVenv ==
    [ PKG_MAP |-> (s_a :> <<s_p>>) @@ (s_ab :> <<s_q, s_p>>),
      version |-> (s_p :> Some(s_1_2)) @@ (s_q :> None),
      builtin_module_names |-> {},
      find_spec |-> (s_a :> Some(ModuleSpec(Some(SiteDir \o <<"a", "__init__.py">>),
                                             Some(<<SiteDir \o <<"a">> >>))))
                 @@ (s_ab :> Some(ModuleSpec(Some(SiteDir \o <<"ab", "__init__.py">>),
                                              Some(<<SiteDir \o <<"ab">> >>))))
                 @@ (s_b :> Some(ModuleSpec(Some(PlatStdlibDir \o <<"b.py">>), None))),
      stdlib |-> Some(StdlibDir),
      platstdlib |-> Some(PlatStdlibDir) ]

(* a a builtin module that a distribution p also provides, ab not installed, *)
(* b an installed package; no version of p can be found                      *)
HostBackport ==
    [ PKG_MAP |-> (s_a :> <<s_p>>) @@ (s_b :> <<s_p>>),
      version |-> (s_p :> None) @@ (s_q :> None),
      builtin_module_names |-> {s_a},
      find_spec |-> (s_a :> Some(ModuleSpec(Some(<<"built-in">>), None)))
                 @@ (s_ab :> None)
                 @@ (s_b :> Some(ModuleSpec(Some(SiteDir \o <<"b", "__init__.py">>),
                                             Some(<<SiteDir \o <<"b">> >>)))),
      stdlib |-> Some(StdlibDir),
      platstdlib |-> Some(StdlibDir) ]

(* a a namespace package under the standard library with an empty index     *)
(* entry, ab an installed single-file module, b a frozen module that two     *)
(* distributions provide                                                     *)
HostSingleFile ==
    [ PKG_MAP |-> (s_a :> <<>>) @@ (s_ab :> <<s_q>>) @@ (s_b :> <<s_q, s_p>>),
      version |-> (s_p :> Some(s_1_2)) @@ (s_q :> Some(s_1_2)),
      builtin_module_names |-> {},
      find_spec |-> (s_a :> Some(ModuleSpec(None, Some(<<StdlibDir \o <<"a">> >>))))
                 @@ (s_ab :> Some(ModuleSpec(Some(SiteDir \o <<"ab.py">>), None)))
                 @@ (s_b :> Some(ModuleSpec(Some(<<"frozen">>), None))),
      stdlib |-> Some(StdlibDir),
      platstdlib |-> None ]

Hosts == {HostVenv, HostBackport, HostSingleFile}

(* PKG_MAP.get(module_name) or [] *)
PKG_MAP_get_or_empty(h, module_name) ==
    IF module_name \in DOMAIN h.PKG_MAP THEN h.PKG_MAP[module_name] ELSE <<>>

(* md.version(dist): the version, or None where it raises PackageNotFoundError *)
md_version(h, dist) == IF dist \in DOMAIN h.version THEN h.version[dist] ELSE None

module_to_distributions_skip_unversioned(h, module_name) ==
    LET dists == PKG_MAP_get_or_empty(h, module_name)
        found_ == SelectSeq(dists, LAMBDA d : md_version(h, d) # None)
    IN  [k \in 1..Len(found_) |-> Distribution(found_[k], md_version(h, found_[k]))]

module_to_distributions(h, module_name) ==
    LET dists == PKG_MAP_get_or_empty(h, module_name)
    IN  [k \in 1..Len(dists) |-> Distribution(dists[k], md_version(h, dists[k]))]

(* is_stdlib_module: "True", "False", or "TypeError" where iterating the    *)
(* submodule_search_locations of a spec that has none raises                *)
is_stdlib_module(h, module_name) ==
    IF module_name \in h.builtin_module_names THEN "True"
    ELSE LET spec == IF module_name \in DOMAIN h.find_spec
                     THEN h.find_spec[module_name] ELSE None
         IN  IF spec = None THEN "False"
             ELSE LET origin == spec[1].origin
                      stdlib_paths == h.stdlib \o h.platstdlib
                      locations == spec[1].locations
                  IN  IF origin \in {Some(<<"built-in">>), Some(<<"frozen">>)} THEN "True"
                      ELSE IF origin # None
                              /\ \E k \in DOMAIN stdlib_paths :
                                     IsRelativeTo(origin[1], stdlib_paths[k])
                      THEN "True"
                      ELSE IF locations = None THEN "TypeError"
                      ELSE IF \E l \in DOMAIN locations[1], k \in DOMAIN stdlib_paths :
                                  IsRelativeTo(locations[1][l], stdlib_paths[k])
                      THEN "True"
                      ELSE "False"

----------------------------------------------------------------------------
(* Source files: what path.read_text() and ast.parse() do for the file     *)

OkFile(t) == [read |-> "ok", parse |-> "ok", tree |-> t]
(* import a.b / def f(): from ab.x import y *)
FileNested == OkFile(<<ModuleNode, Import(1, <<s_a_b>>), FunctionDef(1),
                       ImportFrom(3, 0, Some(s_ab_x))>>)
(* from .a import y / import b.a *)
FileRelative == OkFile(<<ModuleNode, ImportFrom(1, 1, Some(s_a)), Import(1, <<s_b_a>>)>>)
FileSyntaxError == [read |-> "ok", parse |-> "SyntaxError", tree |-> <<ModuleNode>>]
FileUnreadable == [read |-> "OSError", parse |-> "ok", tree |-> <<ModuleNode>>]
(* bytes that are not text in the default encoding *)
FileUndecodable == [read |-> "UnicodeDecodeError", parse |-> "ok", tree |-> <<ModuleNode>>]

Files == {FileNested, FileRelative, FileSyntaxError, FileUnreadable, FileUndecodable}

(* The result of a unit of work: the exception it raised, or its value *)
Returned(v) == [exc |-> "", val |-> v]
Raised(e) == [exc |-> e, val |-> {}]

collect_imports_from_source(path) ==
    IF path.read = "OSError" THEN Returned({})
    ELSE IF path.read # "ok" THEN Raised(path.read)
    ELSE IF path.parse = "SyntaxError" THEN Returned({})
    ELSE Returned(find_imports(path.tree))

----------------------------------------------------------------------------
(* The pool. A pool.map in progress is the set of units a worker is running *)
(* and the results that have come back, each with the index of its unit.    *)

Arrival(i, v) == [i |-> i, val |-> v]

(* What pool.map returns once every unit has come back *)
PoolMapInCompletionOrder(arr) == [k \in 1..Len(arr) |-> arr[k].val]

PoolMap(arr) == [k \in 1..Len(arr) |-> (CHOOSE e \in Range(arr) : e.i = k).val]

(* itertools.chain.from_iterable over the per-file sets *)
RECURSIVE chain_from_iterable(_)
chain_from_iterable(results) ==
    IF results = <<>> THEN <<>>
    ELSE IterSet(Head(results)) \o chain_from_iterable(Tail(results))

collect_imports_without_set(results) == sorted(chain_from_iterable(results))

(* collect_imports, given the results of its pool.map *)
collect_imports(results) == sorted(IterSet(Range(chain_from_iterable(results))))

----------------------------------------------------------------------------
(* process_files after its two pool.map calls *)

(* dict(zip(imports, mapped, strict=True)) *)
zip_dict(imps, mapped) ==
    [m \in Range(imps) |->
        mapped[CHOOSE k \in DOMAIN imps : imps[k] = m /\ \A j \in DOMAIN imps : imps[j] = m => j <= k]]

(* info.to_specifier(version_style) for specs in dist_map.values() for info in specs *)
RECURSIVE SpecifierList(_, _, _)
SpecifierList(imps, dm, style) ==
    IF imps = <<>> THEN <<>>
    ELSE [k \in DOMAIN dm[Head(imps)] |-> to_specifier(dm[Head(imps)][k], style)]
         \o SpecifierList(Tail(imps), dm, style)

Dedup(s) == SelectSeq([k \in DOMAIN s |-> IF \E j \in 1..(k - 1) : s[j] = s[k] THEN <<0>> ELSE s[k]],
                      LAMBDA x : x # <<0>>)

flatten_unsorted(imps, dm, style) == Dedup(SpecifierList(imps, dm, style))

flatten_skip_stdlib(imps, dm, style) ==
    sorted(IterSet(Range(SpecifierList(
        SelectSeq(imps, LAMBDA m : is_stdlib_module(host, m) # "True"), dm, style))))

(* dists = sorted(flattened) *)
flatten(imps, dm, style) == sorted(IterSet(Range(SpecifierList(imps, dm, style))))

unresolved_modules_ignore_stdlib(h, imps, dm) == SelectSeq(imps, LAMBDA m : dm[m] = <<>>)

(* [m for m, d in dist_map.items() if (not is_stdlib_module(m) and not d)] *)
unresolved_modules(h, imps, dm) ==
    SelectSeq(imps, LAMBDA m : is_stdlib_module(h, m) = "False" /\ dm[m] = <<>>)

(* the unresolved dict, as its items in insertion order *)
unresolved_of(h, imps, dm) ==
    LET mods == sorted(unresolved_modules(h, imps, dm))
    IN  [k \in DOMAIN mods |->
            [module |-> mods[k], candidates |-> sorted(PKG_MAP_get_or_empty(h, mods[k]))]]

NoPayload == [distributions |-> <<>>, unresolved |-> <<>>]
StrChunk(s) == [kind |-> "str", str |-> s, obj |-> NoPayload]
JsonChunk(payload) == [kind |-> "json", str |-> <<>>, obj |-> payload]

(* Lines 180-217: what is written and the exception raised, "" if none. A   *)
(* module whose is_stdlib_module raises ends the call: before anything is   *)
(* written for json, in the closing log loop for text.                      *)
Render(h, imps, mapped, style, fmt) ==
    LET dm == zip_dict(imps, mapped)
        dists == flatten(imps, dm, style)
        stdlibRaises == \E k \in DOMAIN imps : is_stdlib_module(h, imps[k]) = "TypeError"
    IN  IF fmt = "text"
        THEN [written |-> [k \in DOMAIN dists |-> StrChunk(dists[k] \o <<10>>)],
              err |-> IF stdlibRaises THEN "TypeError" ELSE ""]
        ELSE IF fmt = "json"
        THEN IF stdlibRaises
             THEN [written |-> <<>>, err |-> "TypeError"]
             ELSE [written |-> <<JsonChunk([distributions |-> dists,
                                            unresolved |-> unresolved_of(h, imps, dm)]),
                                 StrChunk(<<10>>)>>,
                   err |-> ""]
        ELSE [written |-> <<>>, err |-> "ValueError: unsupported output_format"]

----------------------------------------------------------------------------
(* Inputs *)

RECURSIVE SeqsUpTo(_, _)
SeqsUpTo(S, n) ==
    IF n = 0 THEN {<<>>}
    ELSE LET shorter == SeqsUpTo(S, n - 1)
         IN  shorter \cup {Append(s, x) : s \in shorter, x \in S}

VersionStyles == {"compatible", "minimum", "none", "exact"}
FormatChoice == {"text", "json"}
Formats == FormatChoice \cup {"xml"}
OutputTargets == {"stdout", "file", "directory", "unwritable"}

ConfigErrors ==
    { "BadParameter: jobs", "BadParameter: no files", "BadParameter: output directory",
      "OSError: open output", "BadParameter: format", "ValueError: unsupported output_format" }

Init ==
    /\ entry \in {"cli", "api"}
    /\ jobs \in (IF entry = "cli" THEN 0..MaxJobs ELSE 1..MaxJobs)
    /\ paths \in SeqsUpTo(Files, MaxFiles)
    /\ host \in Hosts
    /\ version_style \in VersionStyles
    /\ output_format \in Formats
    /\ output \in (IF entry = "cli" THEN OutputTargets ELSE {"stream"})
    /\ pc = "start"
    /\ running = {}
    /\ arrived = <<>>
    /\ imports = <<>>
    /\ dist_map = <<>>
    /\ written = <<>>
    /\ err = ""
    /\ unitsRun = 0
    /\ tree = <<ModuleNode>>
    /\ found = None

----------------------------------------------------------------------------
(* Actions *)

Fail(e) ==
    /\ pc' = "failed"
    /\ err' = e
    /\ running' = {}

(* main(): click's validation of --format, then lines 113-128, up to the    *)
(* call of process_files and its first pool.map                             *)
Main ==
    /\ pc = "start" /\ entry = "cli"
    /\ IF output_format \notin FormatChoice THEN Fail("BadParameter: format")
       ELSE IF jobs < 1 THEN Fail("BadParameter: jobs")
       ELSE IF paths = <<>> THEN Fail("BadParameter: no files")
       ELSE IF output = "directory" THEN Fail("BadParameter: output directory")
       ELSE IF output = "unwritable" THEN Fail("OSError: open output")
       ELSE pc' = "scan" /\ UNCHANGED <<err, running>>
    /\ UNCHANGED <<entry, jobs, paths, host, version_style, output_format, output,
                   arrived, imports, dist_map, written, unitsRun, tree, found>>

(* process_files called with a pool of its caller *)
CallProcessFiles ==
    /\ pc = "start" /\ entry = "api"
    /\ pc' = "scan"
    /\ UNCHANGED <<entry, jobs, paths, host, version_style, output_format, output,
                   running, arrived, imports, dist_map, written, err, unitsRun, tree, found>>

(* The units of the pool.map in progress *)
Units == IF pc = "scan" THEN paths ELSE IF pc = "lookup" THEN imports ELSE <<>>

Pending == DOMAIN Units \ (running \cup {arrived[k].i : k \in DOMAIN arrived})

(* An idle worker takes a unit *)
StartUnit(i) ==
    /\ pc \in {"scan", "lookup"}
    /\ i \in Pending
    /\ Cardinality(running) < jobs
    /\ running' = running \cup {i}
    /\ unitsRun' = unitsRun + 1
    /\ UNCHANGED <<entry, jobs, paths, host, version_style, output_format, output, pc,
                   arrived, imports, dist_map, written, err, tree, found>>

(* The function pool.map applies in this phase, on unit i *)
UnitResult(i) ==
    IF pc = "scan" THEN collect_imports_from_source(paths[i])
    ELSE Returned(module_to_distributions(host, imports[i]))

(* A worker finishes its unit: the result comes back, or the exception     *)
(* raised by the unit is raised by pool.map in the coordinator              *)
FinishUnit(i) ==
    /\ pc \in {"scan", "lookup"}
    /\ i \in running
    /\ LET r == UnitResult(i)
       IN  IF r.exc # ""
           THEN Fail(r.exc) /\ UNCHANGED arrived
           ELSE /\ arrived' = Append(arrived, Arrival(i, r.val))
                /\ running' = running \ {i}
                /\ UNCHANGED <<pc, err>>
    /\ UNCHANGED <<entry, jobs, paths, host, version_style, output_format, output,
                   imports, dist_map, written, unitsRun, tree, found>>

(* collect_imports returns (line 159); process_files starts its second     *)
(* pool.map (line 179)                                                      *)
CollectImportsReturns ==
    /\ pc = "scan"
    /\ Len(arrived) = Len(paths)
    /\ imports' = collect_imports(PoolMap(arrived))
    /\ pc' = "lookup"
    /\ arrived' = <<>>
    /\ UNCHANGED <<entry, jobs, paths, host, version_style, output_format, output,
                   running, dist_map, written, err, unitsRun, tree, found>>

(* The second pool.map returns; lines 180-217 *)
ProcessFilesFinishes ==
    /\ pc = "lookup"
    /\ Len(arrived) = Len(imports)
    /\ LET mapped == PoolMap(arrived)
           r == Render(host, imports, mapped, version_style, output_format)
       IN  /\ dist_map' = zip_dict(imports, mapped)
           /\ written' = r.written
           /\ err' = r.err
           /\ pc' = IF r.err = "" THEN "done" ELSE "failed"
    /\ UNCHANGED <<entry, jobs, paths, host, version_style, output_format, output,
                   running, arrived, imports, unitsRun, tree, found>>

Next ==
    \/ Main
    \/ CallProcessFiles
    \/ \E i \in DOMAIN Units : StartUnit(i)
    \/ \E i \in DOMAIN Units : FinishUnit(i)
    \/ CollectImportsReturns
    \/ ProcessFilesFinishes

Spec == Init /\ [][Next]_vars

----------------------------------------------------------------------------
(* find_imports on its own: every tree of up to MaxNodes nodes               *)

ImportNames == {<<s_a>>, <<s_a_b>>, <<s_ab_x, s_b>>}
FromTargets == {<<0, Some(s_a_b)>>, <<0, Some(s_b)>>, <<1, None>>, <<1, Some(s_ab)>>}

Containers(t) == {i \in DOMAIN t : t[i].type \in {"Module", "FunctionDef"}}

NodesUnder(p) ==
    {FunctionDef(p), Expr(p)}
    \cup {Import(p, names) : names \in ImportNames}
    \cup {ImportFrom(p, f[1], f[2]) : f \in FromTargets}

RECURSIVE TreesOfSize(_)
TreesOfSize(n) ==
    IF n = 1 THEN {<<ModuleNode>>}
    ELSE UNION {{Append(t, node) : node \in UNION {NodesUnder(p) : p \in Containers(t)}}
                : t \in TreesOfSize(n - 1)}

Trees == UNION {TreesOfSize(n) : n \in 1..MaxNodes}

InitScan ==
    /\ tree \in Trees
    /\ found = None
    /\ pc = "walk"
    /\ entry = "api"
    /\ jobs = 1
    /\ paths = <<>>
    /\ host = HostVenv
    /\ version_style = "minimum"
    /\ output_format = "text"
    /\ output = "stream"
    /\ running = {}
    /\ arrived = <<>>
    /\ imports = <<>>
    /\ dist_map = <<>>
    /\ written = <<>>
    /\ err = ""
    /\ unitsRun = 0

CallFindImports ==
    /\ pc = "walk"
    /\ found' = Some(find_imports(tree))
    /\ pc' = "walked"
    /\ UNCHANGED <<entry, jobs, paths, host, version_style, output_format, output,
                   running, arrived, imports, dist_map, written, err, unitsRun, tree>>

NextScan == CallFindImports

SpecScan == InitScan /\ [][NextScan]_vars

----------------------------------------------------------------------------
(* What the properties speak of *)

Terminal == pc \in {"done", "failed"}

(* process_files was called and has ended *)
ProcessFilesEnded == Terminal /\ (entry = "cli" => err \notin ConfigErrors)

(* The union of the scans of the files handed in *)
ScanUnion == UNION {collect_imports_from_source(f).val : f \in Range(paths)}

ScanFails(f) == f.read # "ok" \/ f.parse # "ok"

(* process_files on the files ps with a pool that runs one unit after the   *)
(* other in input order                                                     *)
SequentialOutcome(ps) ==
    LET scans == [i \in DOMAIN ps |-> collect_imports_from_source(ps[i])]
    IN  IF \E i \in DOMAIN ps : scans[i].exc # ""
        THEN [written |-> <<>>,
              err |-> scans[CHOOSE i \in DOMAIN ps : scans[i].exc # ""].exc]
        ELSE LET imps == collect_imports([i \in DOMAIN ps |-> scans[i].val])
                 mapped == [k \in DOMAIN imps |-> module_to_distributions(host, imps[k])]
             IN  Render(host, imps, mapped, version_style, output_format)

IsStrictlyAscending(s) == \A k \in 1..(Len(s) - 1) : StrLess(s[k], s[k + 1])

JsonWritten == written # <<>> /\ written[1].kind = "json"

Payload == written[1].obj

(* The distributions sequence emitted: the text lines without their line   *)
(* ends, or the array of the JSON payload                                   *)
OutDistributions ==
    IF written = <<>> THEN <<>>
    ELSE IF written[1].kind = "json" THEN Payload.distributions
    ELSE [k \in DOMAIN written |-> SubSeq(written[k].str, 1, Len(written[k].str) - 1)]

UnresolvedKeys == {Payload.unresolved[k].module : k \in DOMAIN Payload.unresolved}

(* The specifiers in the output that one of m's distributions renders to *)
Contribution(m) ==
    {s \in Range(OutDistributions) :
        \E k \in DOMAIN dist_map[m] : to_specifier(dist_map[m][k], version_style) = s}

(* The first dotted segment of a name, stated without splitting *)
TopLevel(s) ==
    SubSeq(s, 1, CHOOSE k \in 0..Len(s) :
                    /\ \A i \in 1..k : s[i] # 46
                    /\ (k = Len(s) \/ s[k + 1] = 46))

(* The table of specifier renderings *)
SpecifierTable(name, version, style) ==
    CASE version = None -> name
      [] version # None /\ style = "minimum" -> name \o <<62, 61>> \o version[1]
      [] version # None /\ style = "compatible" -> name \o <<126, 61>> \o version[1]
      [] version # None /\ style = "exact" -> name \o <<61, 61>> \o version[1]
      [] version # None /\ style = "none" -> name

----------------------------------------------------------------------------
(* C1: whatever the number of workers and the order in which the units of  *)
(* the two pool.map calls start and finish, process_files writes, and ends  *)
(* with, what a one-unit-at-a-time run in input order writes and ends with. *)
C1_OutputIndependentOfScheduling ==
    ProcessFilesEnded =>
        /\ written = SequentialOutcome(paths).written
        /\ err = SequentialOutcome(paths).err

C1_Witness ==
    /\ pc = "done" /\ jobs >= 2 /\ written # <<>>
    /\ Len(arrived) >= 2 /\ arrived[1].i > arrived[2].i

(* C2: in the JSON payload a scanned module is a key of unresolved exactly  *)
(* when is_stdlib_module is false for it and module_to_distributions gave   *)
(* the empty list.                                                          *)
C2_UnresolvedIff ==
    (pc = "done" /\ JsonWritten) =>
        \A m \in ScanUnion :
            m \in UnresolvedKeys <=>
                (is_stdlib_module(host, m) = "False" /\ module_to_distributions(host, m) = <<>>)

C2_Witness ==
    /\ pc = "done" /\ JsonWritten
    /\ \E m \in ScanUnion : m \in UnresolvedKeys
    /\ \E m \in ScanUnion : is_stdlib_module(host, m) = "True" /\ m \notin UnresolvedKeys
    /\ \E m \in ScanUnion : module_to_distributions(host, m) # <<>>

(* C3 as claimed: every scanned module is in exactly one of the classes     *)
(* resolved, stdlib, unresolved, and a module classified standard-library   *)
(* is absent from both distributions and unresolved.                        *)
ResolvedClass(m) == Contribution(m) # {} /\ m \notin UnresolvedKeys
AbsentClass(m) == Contribution(m) = {} /\ m \notin UnresolvedKeys
UnresolvedClass(m) == Contribution(m) = {} /\ m \in UnresolvedKeys

C3_StdlibAbsentFromBoth ==
    (pc = "done" /\ JsonWritten) =>
        \A m \in ScanUnion :
            /\ ResolvedClass(m) \/ AbsentClass(m) \/ UnresolvedClass(m)
            /\ is_stdlib_module(host, m) = "True" => AbsentClass(m)
            /\ UnresolvedClass(m) => is_stdlib_module(host, m) = "False"

(* C3 amended: the class of a scanned module is decided by its lookup       *)
(* first: a module with at least one listed distribution is resolved (each  *)
(* of its specifiers is in distributions, it is no key of unresolved),      *)
(* standard-library or not; a module with none is absent from both when it  *)
(* is standard-library and is a key of unresolved, contributing nothing,    *)
(* when it is not.                                                          *)
C3_ClassesByLookup ==
    (pc = "done" /\ JsonWritten) =>
        \A m \in ScanUnion :
            LET ds == module_to_distributions(host, m)
            IN  /\ ds # <<>> =>
                     /\ ResolvedClass(m)
                     /\ \A k \in DOMAIN ds :
                            to_specifier(ds[k], version_style) \in Range(OutDistributions)
                /\ (ds = <<>> /\ is_stdlib_module(host, m) = "True") => AbsentClass(m)
                /\ (ds = <<>> /\ is_stdlib_module(host, m) = "False") => UnresolvedClass(m)

C3_Witness ==
    /\ pc = "done" /\ JsonWritten
    /\ \E m \in ScanUnion :
           /\ is_stdlib_module(host, m) = "True"
           /\ module_to_distributions(host, m) # <<>>
           /\ ResolvedClass(m)
    /\ \E m \in ScanUnion : UnresolvedClass(m)

(* C4: the distributions emitted, as text lines or as the JSON array, are   *)
(* in strictly ascending lexicographic order.                               *)
C4_DistributionsStrictlyAscending == IsStrictlyAscending(OutDistributions)

C4_Witness ==
    /\ pc = "done"
    /\ Len(OutDistributions) >= 2
    /\ Len(SpecifierList(imports, dist_map, version_style)) > Len(OutDistributions)

(* C5: a file whose scan fails never raises out of its worker, and          *)
(* process_files writes and ends as it does on the other files alone.       *)
C5_FailedScanIsolated ==
    ProcessFilesEnded =>
        LET others == SelectSeq(paths, LAMBDA f : ~ScanFails(f))
        IN  /\ written = SequentialOutcome(others).written
            /\ err = SequentialOutcome(others).err

(* C6: a configuration error is reported before any unit of work was handed *)
(* to the pool, and nothing is written when one is reported.                *)
C6_ConfigErrorsBeforeWork ==
    (pc = "failed" /\ err \in ConfigErrors) => (unitsRun = 0 /\ written = <<>>)

(* C7: the distributions emitted are exactly the renderings, by the table   *)
(* of the four styles, of the distributions of the scanned modules.         *)
C7_SpecifiersByTable ==
    (pc = "done" \/ written # <<>>) =>
        Range(OutDistributions) =
            UNION {{SpecifierTable(d.name, d.version, version_style)
                        : d \in Range(module_to_distributions(host, m))} : m \in ScanUnion}

C7_Witness ==
    /\ pc = "done"
    /\ version_style = "exact"
    /\ (s_p \o <<61, 61>> \o s_1_2) \in Range(OutDistributions)
    /\ s_q \in Range(OutDistributions)

(* C8: collect_imports returns the strictly ascending list of exactly the   *)
(* union of the scans of the set of files, whatever their order, their      *)
(* repetitions and the number of workers.                                   *)
C8_ImportsAreSortedUnion ==
    pc \in {"lookup", "done"} =>
        /\ IsStrictlyAscending(imports)
        /\ Range(imports) = ScanUnion

C8_Witness ==
    /\ pc = "lookup" /\ jobs >= 2
    /\ paths = <<FileRelative, FileNested>>
    /\ Len(imports) = 3

C8_WitnessRepeated ==
    /\ pc = "lookup"
    /\ paths = <<FileNested, FileNested>>
    /\ Len(imports) = 2

(* C9: find_imports returns exactly the first dotted segments of the names  *)
(* of every import statement and of the module of every from-import of      *)
(* level 0, anywhere in the tree; a from-import of level > 0 adds nothing.  *)
C9_FindImportsExact ==
    pc = "walked" =>
        found = Some(
            UNION {{TopLevel(tree[i].names[k]) : k \in DOMAIN tree[i].names}
                       : i \in {j \in DOMAIN tree : tree[j].type = "Import"}}
            \cup {TopLevel(tree[i].module[1])
                       : i \in {j \in DOMAIN tree : tree[j].type = "ImportFrom" /\ tree[j].level = 0}})

C9_Witness ==
    /\ pc = "walked"
    /\ \E i \in DOMAIN tree :
           tree[i].type = "Import" /\ tree[i].parent # 1 /\ tree[i].names = <<s_ab_x, s_b>>
    /\ \E i \in DOMAIN tree :
           tree[i].type = "ImportFrom" /\ tree[i].level > 0 /\ tree[i].module = Some(s_ab)
    /\ found = Some({s_ab, s_b})

(* C10: a module with at least one candidate distribution is no key of      *)
(* unresolved; its Distributions are its candidates in index order, the     *)
(* version absent where the lookup fails, and such a candidate is emitted   *)
(* as its bare name; every value of unresolved is the empty list.           *)
C10_CandidatesNeverUnresolved ==
    pc = "done" =>
        /\ \A m \in ScanUnion :
               LET cands == PKG_MAP_get_or_empty(host, m)
               IN  cands # <<>> =>
                     /\ JsonWritten => m \notin UnresolvedKeys
                     /\ Len(dist_map[m]) = Len(cands)
                     /\ \A k \in DOMAIN cands :
                            /\ dist_map[m][k].name = cands[k]
                            /\ dist_map[m][k].version = md_version(host, cands[k])
                            /\ md_version(host, cands[k]) = None =>
                                   cands[k] \in Range(OutDistributions)
        /\ JsonWritten =>
               \A k \in DOMAIN Payload.unresolved : Payload.unresolved[k].candidates = <<>>

C10_Witness ==
    /\ pc = "done" /\ JsonWritten
    /\ Payload.unresolved # <<>>
    /\ \E m \in ScanUnion :
           /\ PKG_MAP_get_or_empty(host, m) # <<>>
           /\ \A k \in DOMAIN dist_map[m] : dist_map[m][k].version = None

====
